---- MODULE Spec2Model ----
(***************************************************************************)
(* Model of the Arctis Nova Pro Wireless driver                            *)
(* (arctis_chatmix/devices/device_arctis_nova_pro_wireless.py): the        *)
(* initialization sequence, the input dispatcher and the status decoder,   *)
(* together with the session that calls them.                              *)
(***************************************************************************)
EXTENDS Integers, Sequences, FiniteSets, TLC

VARIABLES
    dev,        \* the connected USB device, as the driver sees it
    session,    \* the caller's session state
    pc,         \* position of init_device
    cmd_idx,    \* number of loop iterations of init_device completed
    init_error, \* the exception init_device ended with, or "none"
    io,         \* transport events issued by the driver, in order
    game_mix,   \* self.game_mix
    chat_mix,   \* self.chat_mix
    op,         \* the operation performed by the last step
    last_call,  \* arguments of the last manage_input_data call
    ret,        \* outcome of the last manage_input_data call
    last_mix,   \* history: the most recent mix-update report handled, or <<>>
    last_status, \* the caller's latest DeviceStatus
    threads,    \* the manage_input_data calls in progress on concurrent threads
    catalog,    \* the last get_configurable_settings call: argument and result
    decoded,    \* history: the status reports decoded so far, each with its result
    general_config, \* the file general.json of the configuration directory
    config_calls \* history: the value of the latest general-settings call per key

vars == <<dev, session, pc, cmd_idx, init_error, io, game_mix, chat_mix,
          op, last_call, ret, last_mix, last_status, threads, catalog,
          decoded, general_config, config_calls>>

\* the state that only the concurrent calls, the settings catalog, the
\* history of the decoder and the general settings use
aux == <<threads, catalog, decoded, general_config, config_calls>>

----------------------------------------------------------------------------
(* Bounds of the model *)

\* reports carry up to MaxExtra bytes after the shortest recognised length
MaxExtra == 1

----------------------------------------------------------------------------
(* Values *)

None == [none |-> TRUE]

RECURSIVE GCD(_, _)
GCD(a, b) == IF b = 0 THEN a ELSE GCD(b, a % b)

\* the real number n/d, in lowest terms
Frac(n, d) == LET g == GCD(n, d) IN [num |-> n \div g, den |-> d \div g]

FracLeq(a, b) == a.num * b.den <= b.num * a.den

InterfaceEndpoint(i, e) == [interface |-> i, endpoint |-> e]

\* an exception leaving the function that was called
Raised(e) == [raised |-> e]
IsRaised(x) == "raised" \in DOMAIN x

\* the threads that may call manage_input_data at the same time
Threads == {"t1", "t2"}

\* a thread that is not inside manage_input_data
IdleThread == [pc |-> "idle", call |-> None, game_mix |-> None, ret |-> None]

\* no call is in progress on any thread
NoThreads == [t \in Threads |-> IdleThread]

\* the keys of the general configuration the settings window writes
SettingKeys == {"device_switch", "smart_device_switch", "fallback_device"}

\* general.json does not exist
NoFile == [is_file |-> FALSE, content |-> <<>>]

\* no general setting has been changed yet
NoCalls == [k \in SettingKeys |-> None]

----------------------------------------------------------------------------
(* init_device *)

\* the frame size init_device pads every command to
FrameSize == 91

Cmd(bytes, expects) == [bytes |-> bytes, expects_response |-> expects]

commands == <<
    Cmd(<<6, 32>>, TRUE),
    Cmd(<<6, 32>>, TRUE),
    Cmd(<<6, 16>>, TRUE),
    Cmd(<<6, 16>>, TRUE),
    Cmd(<<6, 16>>, TRUE),
    Cmd(<<6, 59>>, FALSE),
    Cmd(<<6, 141, 1>>, TRUE),
    Cmd(<<6, 32>>, TRUE),
    Cmd(<<6, 32>>, TRUE),
    Cmd(<<6, 32>>, TRUE),
    Cmd(<<6, 128>>, TRUE),
    Cmd(<<6, 59>>, FALSE),
    Cmd(<<6, 141, 1>>, FALSE),
    Cmd(<<6, 51, 20, 20, 20>>, FALSE),
    Cmd(<<6, 195, 0>>, FALSE),
    Cmd(<<6, 46, 0>>, FALSE),
    Cmd(<<6, 193, 5>>, FALSE),
    Cmd(<<6, 133, 10>>, FALSE),
    Cmd(<<6, 55, 10>>, FALSE),
    Cmd(<<6, 178>>, FALSE),
    Cmd(<<6, 71, 100, 0, 100>>, FALSE),
    Cmd(<<6, 131, 1>>, FALSE),
    Cmd(<<6, 137, 0>>, FALSE),
    Cmd(<<6, 39, 2>>, FALSE),
    Cmd(<<6, 179, 0>>, FALSE),
    Cmd(<<6, 57, 0>>, FALSE),
    Cmd(<<6, 191, 10>>, FALSE),
    Cmd(<<6, 67, 1>>, FALSE),
    Cmd(<<6, 105, 0>>, FALSE),
    Cmd(<<6, 59, 0>>, FALSE),
    Cmd(<<6, 141, 1>>, FALSE),
    Cmd(<<6, 73, 1>>, FALSE),
    Cmd(<<6, 183, 0>>, FALSE),
    Cmd(<<6, 183, 0>>, TRUE),
    Cmd(<<6, 183, 0>>, TRUE),
    Cmd(<<6, 176, 0>>, TRUE),
    Cmd(<<6, 32, 0>>, TRUE),
    Cmd(<<6, 183, 0>>, TRUE) >>

\* packet_0_filler padding one byte short
packet_0_filler_short(packet, size) ==
    packet \o [i \in 1..(size - Len(packet) - 1) |-> 0]

packet_0_filler(packet, size) ==
    packet \o [i \in 1..(size - Len(packet)) |-> 0]

\* the devices a session may be opened on: whether interface 7 has an
\* endpoint of direction out, which address that endpoint has, and whether
\* the interface can be detached from the kernel driver
Devices ==
    [out_resolvable : BOOLEAN, bEndpointAddress : {4, 7}, claimable : BOOLEAN]

\* utility_guess_endpoint(7, 'out'): the endpoint, or the resolution failure
utility_guess_endpoint(d, interface, direction) ==
    IF direction = "out" /\ ~d.out_resolvable
    THEN Raised("ResolutionError")
    ELSE InterfaceEndpoint(interface, 0)

get_request_device_status(d) ==
    <<utility_guess_endpoint(d, 7, "out"), <<6, 176>>>>

\* kernel_detach(endpoint): TRUE when the interface was detached
kernel_detach(d, endpoint) == d.claimable

WriteEvent(addr, data) == [op |-> "write", addr |-> addr, data |-> data]
DetachEvent(endpoint) == [op |-> "detach", endpoint |-> endpoint]
ReadEvent(addr) == [op |-> "read", addr |-> addr]

init_device_fail(err) ==
    /\ pc' = "failed"
    /\ init_error' = err
    /\ UNCHANGED <<cmd_idx, io>>

\* init_device_begin with the first command written before kernel_detach
init_device_begin_write_first ==
    /\ pc = "begin"
    /\ LET endpoint == get_request_device_status(dev)[1]
           first == WriteEvent(dev.bEndpointAddress,
                               packet_0_filler(commands[1].bytes, FrameSize))
       IN
         IF IsRaised(endpoint)
         THEN init_device_fail(endpoint.raised)
         ELSE IF ~kernel_detach(dev, endpoint)
         THEN /\ io' = Append(io, first)
              /\ pc' = "failed"
              /\ init_error' = "ClaimError"
              /\ cmd_idx' = 1
         ELSE /\ io' = io \o <<first, DetachEvent(endpoint)>>
              /\ pc' = "loop"
              /\ cmd_idx' = 1
              /\ UNCHANGED init_error
    /\ op' = "init_device_begin"
    /\ UNCHANGED <<dev, session, game_mix, chat_mix, last_call, ret,
                   last_mix, last_status>>
    /\ UNCHANGED aux

\* init_device_begin falling back to endpoint 0 when the lookup fails
init_device_begin_unresolved ==
    /\ pc = "begin"
    /\ LET found == get_request_device_status(dev)[1]
           endpoint == IF IsRaised(found) THEN InterfaceEndpoint(7, 0) ELSE found
       IN
         IF ~kernel_detach(dev, endpoint)
         THEN init_device_fail("ClaimError")
         ELSE /\ io' = Append(io, DetachEvent(endpoint))
              /\ pc' = "loop"
              /\ UNCHANGED <<cmd_idx, init_error>>
    /\ op' = "init_device_begin"
    /\ UNCHANGED <<dev, session, game_mix, chat_mix, last_call, ret,
                   last_mix, last_status>>
    /\ UNCHANGED aux

\* lines 94-96: resolve the command endpoint, detach the kernel driver
init_device_begin ==
    /\ pc = "begin"
    /\ LET endpoint == get_request_device_status(dev)[1] IN
         IF IsRaised(endpoint)
         THEN init_device_fail(endpoint.raised)
         ELSE IF ~kernel_detach(dev, endpoint)
         THEN init_device_fail("ClaimError")
         ELSE /\ io' = Append(io, DetachEvent(endpoint))
              /\ pc' = "loop"
              /\ UNCHANGED <<cmd_idx, init_error>>
    /\ op' = "init_device_begin"
    /\ UNCHANGED <<dev, session, game_mix, chat_mix, last_call, ret,
                   last_mix, last_status>>
    /\ UNCHANGED aux

\* init_device_write reading the response of a command that expects one
init_device_write_reading ==
    /\ pc = "loop"
    /\ cmd_idx < Len(commands)
    /\ \E written \in BOOLEAN :
         IF written
         THEN /\ io' = io \o
                    <<WriteEvent(dev.bEndpointAddress,
                        packet_0_filler(commands[cmd_idx + 1].bytes, FrameSize))>>
                    \o (IF commands[cmd_idx + 1].expects_response
                        THEN <<ReadEvent(dev.bEndpointAddress)>> ELSE <<>>)
              /\ cmd_idx' = cmd_idx + 1
              /\ UNCHANGED <<pc, init_error>>
         ELSE init_device_fail("TransportError")
    /\ op' = "init_device_write"
    /\ UNCHANGED <<dev, session, game_mix, chat_mix, last_call, ret,
                   last_mix, last_status>>
    /\ UNCHANGED aux

\* init_device_write catching the failure of a write and trying again
init_device_write_retrying ==
    /\ pc = "loop"
    /\ cmd_idx < Len(commands)
    /\ \E written \in BOOLEAN :
         IF written
         THEN /\ io' = Append(io, WriteEvent(dev.bEndpointAddress,
                          packet_0_filler(commands[cmd_idx + 1].bytes, FrameSize)))
              /\ cmd_idx' = cmd_idx + 1
              /\ UNCHANGED <<pc, init_error>>
         ELSE /\ init_error' = "TransportError"
              /\ UNCHANGED <<pc, cmd_idx, io>>
    /\ op' = "init_device_write"
    /\ UNCHANGED <<dev, session, game_mix, chat_mix, last_call, ret,
                   last_mix, last_status>>
    /\ UNCHANGED aux

\* lines 98-99: one iteration of the loop; the write either succeeds or raises
init_device_write ==
    /\ pc = "loop"
    /\ cmd_idx < Len(commands)
    /\ \E written \in BOOLEAN :
         IF written
         THEN /\ io' = Append(io, WriteEvent(dev.bEndpointAddress,
                          packet_0_filler(commands[cmd_idx + 1].bytes, FrameSize)))
              /\ cmd_idx' = cmd_idx + 1
              /\ UNCHANGED <<pc, init_error>>
         ELSE init_device_fail("TransportError")
    /\ op' = "init_device_write"
    /\ UNCHANGED <<dev, session, game_mix, chat_mix, last_call, ret,
                   last_mix, last_status>>
    /\ UNCHANGED aux

\* the loop is exhausted: init_device returns
init_device_return ==
    /\ pc = "loop"
    /\ cmd_idx = Len(commands)
    /\ pc' = "done"
    /\ op' = "init_device_return"
    /\ UNCHANGED <<dev, session, cmd_idx, init_error, io, game_mix, chat_mix,
                   last_call, ret, last_mix, last_status>>
    /\ UNCHANGED aux

----------------------------------------------------------------------------
(* The session that owns the driver *)

SessionStart ==
    /\ session = "NotInitialized"
    /\ pc = "idle"
    /\ session' = "Initializing"
    /\ pc' = "begin"
    /\ op' = "session_start"
    /\ UNCHANGED <<dev, cmd_idx, init_error, io, game_mix, chat_mix,
                   last_call, ret, last_mix, last_status>>
    /\ UNCHANGED aux

SessionInitialized ==
    /\ session = "Initializing"
    /\ pc \in {"done", "failed"}
    /\ session' = IF pc = "done" THEN "Ready" ELSE "Failed"
    /\ op' = "session_initialized"
    /\ UNCHANGED <<dev, pc, cmd_idx, init_error, io, game_mix, chat_mix,
                   last_call, ret, last_mix, last_status>>
    /\ UNCHANGED aux

----------------------------------------------------------------------------
(* Properties of init_device *)

\* the frames written so far, in order
Writes == SelectSeq(io, LAMBDA e : e.op = "write")

\* C1: init_device writes one frame per entry of the 38-entry command table,
\* in table order, all to the command endpoint's address, each frame being
\* the command's bytes followed by zeros up to a length of exactly 91; when
\* init_device returns, the whole table has been written.
C1_InitWritesCommandTable ==
    /\ Len(Writes) <= 38
    /\ \A i \in 1..Len(Writes) :
         /\ Writes[i].addr = dev.bEndpointAddress
         /\ Len(Writes[i].data) = 91
         /\ \A j \in 1..91 :
              Writes[i].data[j] = IF j <= Len(commands[i].bytes)
                                  THEN commands[i].bytes[j]
                                  ELSE 0
    /\ pc = "done" => Len(Writes) = 38

C1_Witness == pc = "done" /\ Len(Writes) = 38 /\ Writes[14].data[5] = 20

\* C2: every command write comes after the kernel driver was detached from
\* interface 7, and when the detach fails init_device fails with no command
\* written.
C2_DetachBeforeFirstWrite ==
    /\ \A i \in 1..Len(io) :
         io[i].op = "write" =>
           \E j \in 1..(i - 1) : io[j].op = "detach" /\ io[j].endpoint.interface = 7
    /\ init_error = "ClaimError" => pc = "failed" /\ Writes = <<>>
    /\ ~dev.claimable => Writes = <<>> /\ pc # "done"

C2_Witness == Len(io) >= 2 /\ io[1].op = "detach" /\ io[2].op = "write"

\* the position in io of the i-th write
RECURSIVE WritePos(_, _)
WritePos(i, from) ==
    IF io[from].op = "write"
    THEN IF i = 1 THEN from ELSE WritePos(i - 1, from + 1)
    ELSE WritePos(i, from + 1)

\* C3 as claimed: for every command that expects a response, a read comes
\* after its write and before the next command's write (or before
\* init_device returns, for the last command).
C3_AckReadBeforeNextWrite ==
    \A i \in 1..Len(Writes) :
      (commands[i].expects_response /\ (i < Len(Writes) \/ pc = "done")) =>
        \E k \in (WritePos(i, 1) + 1)..Len(io) :
          /\ io[k].op = "read"
          /\ i < Len(Writes) => k < WritePos(i + 1, 1)

\* C3 as amended: init_device reads nothing; after the detach every
\* transport event is a write, so each command's write is followed directly
\* by the next command's write whatever its expects-response flag is.
C3_InitReadsNothing ==
    \A k \in 1..Len(io) :
      /\ io[k].op # "read"
      /\ k > 1 => io[k].op = "write"

C3_Witness ==
    /\ Len(Writes) >= 2
    /\ commands[1].expects_response
    /\ io[2].op = "write" /\ io[3].op = "write"

\* C4: when the out endpoint of interface 7 cannot be resolved, init_device
\* fails with the resolution error and no command is written.
C4_UnresolvedEndpointFailsInit ==
    ~dev.out_resolvable =>
      /\ Writes = <<>>
      /\ pc \in {"idle", "begin", "failed"}
      /\ pc = "failed" => init_error = "ResolutionError"

C4_Witness == ~dev.out_resolvable /\ pc = "failed" /\ init_error = "ResolutionError"

\* C17: when the write of a command fails, init_device ends there with the
\* failure: the commands before it are all that was written, nothing is
\* written afterwards (no retry, no later command), and init_device never
\* completes, so the session does not become Ready.
C17_WriteFailureAbortsInit ==
    /\ [](init_error = "TransportError" =>
            /\ pc = "failed"
            /\ session \in {"Initializing", "Failed"}
            /\ cmd_idx < 38
            /\ Len(Writes) = cmd_idx)
    /\ [][init_error = "TransportError" =>
            /\ io' = io
            /\ pc' = "failed"
            /\ init_error' = "TransportError"]_vars

C17_Witness ==
    /\ init_error = "TransportError"
    /\ Len(Writes) = 5
    /\ session = "Failed"

----------------------------------------------------------------------------
(* manage_input_data *)

\* data[i] of the Python list (offsets start at 0)
At(data, i) == data[i + 1]

INACTIVE_TIME_MINUTES ==
    (0 :> 0) @@ (1 :> 1) @@ (2 :> 5) @@ (3 :> 10) @@ (4 :> 15) @@ (5 :> 30) @@ (6 :> 60)

\* round(n/d, 0) of Python 3 for exact ties: to the nearest, ties to even
RoundHalfEven(n, d) ==
    LET q == n \div d
        r == n % d
    IN  IF 2 * r < d THEN q
        ELSE IF 2 * r > d THEN q + 1
        ELSE IF q % 2 = 0 THEN q ELSE q + 1

\* lambda x: round(x / 8, 2)
battery_charge(x) == Frac(RoundHalfEven(x * 100, 8), 100)

\* lambda x: round(x / 10, 0)
noise_cancelling_level(x) == Frac(RoundHalfEven(x, 10), 1)

\* lambda x: x / 10
led_brightness(x) == Frac(x, 10)

\* the lookup falling back to 0 for an unknown code
auto_off_time_minutes_default(x) ==
    IF x \in DOMAIN INACTIVE_TIME_MINUTES
    THEN Frac(INACTIVE_TIME_MINUTES[x], 1)
    ELSE Frac(0, 1)

\* lambda x: INACTIVE_TIME_MINUTES[x]
auto_off_time_minutes(x) ==
    IF x \in DOMAIN INACTIVE_TIME_MINUTES
    THEN Frac(INACTIVE_TIME_MINUTES[x], 1)
    ELSE Raised("KeyError")

\* DeviceStatusValue(raw_val, status_text) and
\* DeviceStatusValue(raw_val, mapped_val=f), f already applied to raw_val
DeviceStatusValue(raw_val, status_text, mapped_val) ==
    [raw_val |-> raw_val, status_text |-> status_text, mapped_val |-> mapped_val]

Label(raw_val, status_text) == DeviceStatusValue(raw_val, status_text, None)
Mapped(raw_val, mapped_val) == DeviceStatusValue(raw_val, "", mapped_val)

\* line 119
bluetooth_powerup_state(data) ==
    Label(At(data, 2), IF At(data, 2) = 0 THEN "on_off.off" ELSE "on_off.on")

\* line 120 without the -12dB case
bluetooth_auto_mute_binary(data) ==
    Label(At(data, 3), IF At(data, 3) = 0 THEN "on_off.off" ELSE "on_off.on")

\* line 120
bluetooth_auto_mute(data) ==
    Label(At(data, 3), IF At(data, 3) = 0 THEN "on_off.off"
                       ELSE IF At(data, 3) = 1 THEN "db.-12db" ELSE "on_off.on")

\* line 121 read like the other on/off fields: off for 0
bluetooth_power_status_plain(data) ==
    Label(At(data, 4), IF At(data, 4) = 0 THEN "on_off.off" ELSE "on_off.on")

\* line 121
bluetooth_power_status(data) ==
    Label(At(data, 4), IF At(data, 4) = 1 THEN "on_off.off" ELSE "on_off.on")

\* lines 122-123
bluetooth_connection(data) ==
    Label(At(data, 5), IF At(data, 5) = 0 THEN "on_off.off"
                       ELSE IF At(data, 5) = 1 THEN "connection.connected"
                       ELSE "connection.disconnected")

\* line 127
mic_status(data) ==
    Label(At(data, 9), IF At(data, 9) = 0 THEN "mic_status.unmuted"
                       ELSE "mic_status.muted")

\* line 128
noise_cancelling(data) ==
    Label(At(data, 10), IF At(data, 10) = 0 THEN "off"
                        ELSE IF At(data, 10) = 1 THEN "transparent" ELSE "on")

\* line 131
wireless_mode(data) ==
    Label(At(data, 13), IF At(data, 13) = 0 THEN "wireless_mode.speed"
                        ELSE "wireless_mode.range")

\* lines 132-133 with the test of offset 13 made first
wireless_pairing_offset13_first(data) ==
    Label(At(data, 14), IF At(data, 13) = 4 THEN "pairing.paired_offline"
                        ELSE IF At(data, 14) = 1 THEN "pairing.not_paired"
                        ELSE "connection.connected")

\* lines 132-133
wireless_pairing(data) ==
    Label(At(data, 14), IF At(data, 14) = 1 THEN "pairing.not_paired"
                        ELSE IF At(data, 13) = 4 THEN "pairing.paired_offline"
                        ELSE "connection.connected")

\* lines 134-135 with cable charging read from offset 15
headset_power_status_offset15(data) ==
    Label(At(data, 15), IF At(data, 15) = 1 THEN "connection.offline"
                        ELSE IF At(data, 15) = 2 THEN "connection.cable_charging"
                        ELSE "connection.online")

\* lines 134-135
headset_power_status(data) ==
    Label(At(data, 15), IF At(data, 15) = 1 THEN "connection.offline"
                        ELSE IF At(data, 14) = 2 THEN "connection.cable_charging"
                        ELSE "connection.online")

\* lines 118-136: the DeviceStatus of a report, or the exception of a transform
DeviceStatus(data) ==
    LET auto_off == auto_off_time_minutes(At(data, 12)) IN
    IF IsRaised(auto_off) THEN auto_off
    ELSE
    [ bluetooth_powerup_state |-> bluetooth_powerup_state(data),
      bluetooth_auto_mute |-> bluetooth_auto_mute(data),
      bluetooth_power_status |-> bluetooth_power_status(data),
      bluetooth_connection |-> bluetooth_connection(data),
      headset_battery_charge |-> Mapped(At(data, 6), battery_charge(At(data, 6))),
      charge_slot_battery_charge |-> Mapped(At(data, 7), battery_charge(At(data, 7))),
      transparent_noise_cancelling_level |->
        Mapped(At(data, 8), noise_cancelling_level(At(data, 8))),
      mic_status |-> mic_status(data),
      noise_cancelling |-> noise_cancelling(data),
      mic_led_brightness |-> Mapped(At(data, 11), led_brightness(At(data, 11))),
      auto_off_time_minutes |-> Mapped(At(data, 12), auto_off),
      wireless_mode |-> wireless_mode(data),
      wireless_pairing |-> wireless_pairing(data),
      headset_power_status |-> headset_power_status(data) ]

\* the if/elif chain without the test of the endpoint
branch_any_endpoint(data, endpoint) ==
    IF Len(data) >= 2 /\ At(data, 0) = 7 /\ At(data, 1) = 37 THEN "volume"
    ELSE IF Len(data) >= 4 /\ At(data, 0) = 7 /\ At(data, 1) = 69 THEN "mix"
    ELSE IF Len(data) >= 16 /\ At(data, 0) = 6 /\ At(data, 1) = 176 THEN "status"
    ELSE "log"

\* lines 106-140: the branch of the if/elif chain a report takes
branch(data, endpoint) ==
    IF endpoint = InterfaceEndpoint(7, 0)
    THEN IF Len(data) >= 2 /\ At(data, 0) = 7 /\ At(data, 1) = 37 THEN "volume"
         ELSE IF Len(data) >= 4 /\ At(data, 0) = 7 /\ At(data, 1) = 69 THEN "mix"
         ELSE IF Len(data) >= 16 /\ At(data, 0) = 6 /\ At(data, 1) = 176 THEN "status"
         ELSE "log"
    ELSE "log_endpoint"

\* the mix kept in locals: a report that is no mix update forgets it
mix_after_reset(data, endpoint, gm, cm) ==
    IF branch(data, endpoint) = "mix"
    THEN [game_mix |-> Frac(At(data, 2), 100), chat_mix |-> Frac(At(data, 3), 100)]
    ELSE [game_mix |-> None, chat_mix |-> None]

\* the two mix bytes read from each other's offset
mix_after_swapped(data, endpoint, gm, cm) ==
    IF branch(data, endpoint) = "mix"
    THEN [game_mix |-> Frac(At(data, 3), 100), chat_mix |-> Frac(At(data, 2), 100)]
    ELSE [game_mix |-> gm, chat_mix |-> cm]

\* lines 112-115: self.game_mix and self.chat_mix after the report
mix_after(data, endpoint, gm, cm) ==
    IF branch(data, endpoint) = "mix"
    THEN [game_mix |-> Frac(At(data, 2), 100), chat_mix |-> Frac(At(data, 3), 100)]
    ELSE [game_mix |-> gm, chat_mix |-> cm]

\* a decoder that merges into the previous snapshot: a zero microphone byte
\* keeps the microphone state of the DeviceStatus returned before
device_status_of_merging(data, endpoint) ==
    IF branch(data, endpoint) = "status"
    THEN IF ~IsRaised(DeviceStatus(data)) /\ last_status # None /\ At(data, 9) = 0
         THEN [DeviceStatus(data) EXCEPT !.mic_status = last_status.mic_status]
         ELSE DeviceStatus(data)
    ELSE None

\* the status branch taken for any report of 16 bytes, whatever its header
device_status_of_any_header(data, endpoint) ==
    IF endpoint = InterfaceEndpoint(7, 0) /\ Len(data) >= 16
       /\ branch(data, endpoint) \notin {"volume", "mix"}
    THEN DeviceStatus(data)
    ELSE None

\* lines 104, 116-136: the local device_status
device_status_of(data, endpoint) ==
    IF branch(data, endpoint) = "status" THEN DeviceStatus(data) ELSE None

\* lines 142-148
ChatMixState(volume, gm, cm, device_status) ==
    [ game_volume |-> volume,
      chat_volume |-> volume,
      game_mix |-> IF gm # None THEN gm ELSE Frac(1, 1),
      chat_mix |-> IF cm # None THEN cm ELSE Frac(1, 1),
      device_status |-> device_status ]

\* the whole handler: an exception leaves the driver's fields as they are
manage_input_data(data, endpoint) ==
    LET volume == Frac(1, 1)
        device_status == device_status_of(data, endpoint)
        mix == mix_after(data, endpoint, game_mix, chat_mix)
    IN  IF IsRaised(device_status)
        THEN /\ ret' = device_status
             /\ UNCHANGED <<game_mix, chat_mix>>
        ELSE /\ game_mix' = mix.game_mix
             /\ chat_mix' = mix.chat_mix
             /\ ret' = ChatMixState(volume, mix.game_mix, mix.chat_mix, device_status)

----------------------------------------------------------------------------
(* The reports a read loop may deliver *)

Zeros(n) == [i \in 1..n |-> 0]

\* (byte[2], byte[3]) of the mix updates delivered: in range, at the range's
\* ends, and above 100
MixPairs ==
    { <<50, 75>>, <<75, 50>>, <<0, 100>>, <<100, 0>>, <<1, 99>>,
      <<101, 50>>, <<50, 255>>, <<255, 200>> }

MixReports ==
    {<<7, 69, p[1], p[2]>> : p \in MixPairs}
    \cup {<<7, 69, 50, 75>> \o Zeros(n) : n \in 0..MaxExtra}

\* the status report of the specification's second scenario
ScenarioStatus == <<6, 176, 0, 1, 1, 1, 64, 64, 30, 0, 2, 50, 5, 1, 4, 2>>

AutoOffCodes == {0, 6, 7, 255}

StatusReports ==
    {[ScenarioStatus EXCEPT ![13] = c] : c \in AutoOffCodes}
    \cup {ScenarioStatus \o Zeros(n) : n \in 0..MaxExtra}
    \cup {[ScenarioStatus EXCEPT ![13] = 7] \o Zeros(n) : n \in 0..MaxExtra}
    \cup {<<6, 176, 1, 0, 0, 2, 13, 255, 25, 1, 1, 7, 2, 0, 1, 1>>}

OtherReports ==
    { <<>>, <<7>>, <<6>>, <<7, 37>>, <<7, 37, 200>>, <<7, 37, 50, 75>>,
      <<7, 69>>, <<7, 69, 50>>, <<6, 176>>, SubSeq(ScenarioStatus, 1, 15),
      <<6, 32, 0>>, <<7, 70, 50, 75>>, <<69, 7, 50, 75>>, Zeros(16) }

Reports == MixReports \cup StatusReports \cup OtherReports

OtherEndpoints == {InterfaceEndpoint(7, 1), InterfaceEndpoint(0, 0)}

Call(data, endpoint) == [data |-> data, endpoint |-> endpoint]

Calls ==
    {Call(d, InterfaceEndpoint(7, 0)) : d \in Reports}
    \cup {Call(d, e) : d \in {<<7, 69, 75, 50>>, <<7, 69, 255, 200>>, ScenarioStatus,
                              [ScenarioStatus EXCEPT ![13] = 7], <<7, 37>>, <<>>},
                       e \in OtherEndpoints}

\* a game/chat mix update, by the protocol's report table
IsMixUpdate(c) ==
    /\ c.endpoint.interface = 7 /\ c.endpoint.endpoint = 0
    /\ Len(c.data) >= 4
    /\ c.data[1] = 7 /\ c.data[2] = 69

\* a full status snapshot, by the protocol's report table
IsFullStatus(c) ==
    /\ c.endpoint.interface = 7 /\ c.endpoint.endpoint = 0
    /\ Len(c.data) >= 16
    /\ c.data[1] = 6 /\ c.data[2] = 176

\* volume telemetry, by the protocol's report table
IsVolumeTelemetry(c) ==
    /\ c.endpoint.interface = 7 /\ c.endpoint.endpoint = 0
    /\ Len(c.data) >= 2
    /\ c.data[1] = 7 /\ c.data[2] = 37

\* a read loop that is live while init_device is still running
ReadLoop_during_init ==
    /\ session \in {"Initializing", "Ready"}
    /\ \E c \in Calls :
         /\ manage_input_data(c.data, c.endpoint)
         /\ last_call' = c
         /\ last_mix' = IF IsMixUpdate(c) THEN c.data ELSE last_mix
    /\ last_status' = IF ~IsRaised(ret') /\ ret'.device_status # None
                      THEN ret'.device_status
                      ELSE last_status
    /\ op' = "manage_input_data"
    /\ UNCHANGED <<dev, session, pc, cmd_idx, init_error, io>>
    /\ UNCHANGED aux

\* one iteration of a read loop: the report goes to the driver, and the
\* session keeps the DeviceStatus the driver returned, if any
ReadLoop ==
    /\ session = "Ready"
    /\ \E c \in Calls :
         /\ manage_input_data(c.data, c.endpoint)
         /\ last_call' = c
         /\ last_mix' = IF IsMixUpdate(c) THEN c.data ELSE last_mix
    /\ last_status' = IF ~IsRaised(ret') /\ ret'.device_status # None
                      THEN ret'.device_status
                      ELSE last_status
    /\ op' = "manage_input_data"
    /\ UNCHANGED <<dev, session, pc, cmd_idx, init_error, io>>
    /\ UNCHANGED aux

----------------------------------------------------------------------------
(* The decoder on a wide range of status reports *)

\* what init_device has issued when it returns
InitLog(addr) ==
    <<DetachEvent(InterfaceEndpoint(7, 0))>>
    \o [i \in 1..Len(commands) |->
          WriteEvent(addr, packet_0_filler(commands[i].bytes, FrameSize))]

\* the driver right after init_device returned, before the first report
ReadyDriver ==
    /\ dev = [out_resolvable |-> TRUE, bEndpointAddress |-> 4, claimable |-> TRUE]
    /\ session = "Ready"
    /\ pc = "done"
    /\ cmd_idx = Len(commands)
    /\ init_error = "none"
    /\ io = InitLog(4)
    /\ game_mix = None
    /\ chat_mix = None
    /\ op = "session_initialized"
    /\ last_call = None
    /\ ret = None
    /\ last_mix = <<>>
    /\ last_status = None
    /\ threads = NoThreads
    /\ catalog = None
    /\ decoded = {}

\* the session right after init_device returned, before the first report
InitReady ==
    /\ ReadyDriver
    /\ general_config = NoFile
    /\ config_calls = NoCalls

\* status reports with every combination of the bytes of the independent
\* label fields (offsets 2, 3, 4, 5, 9, 10)
LabelReports ==
    { [ScenarioStatus EXCEPT ![3] = b2, ![4] = b3, ![5] = b4,
                             ![6] = b5, ![10] = b9, ![11] = b10] :
        b2 \in {0, 1, 2}, b3 \in {0, 1, 2}, b4 \in {0, 1, 2},
        b5 \in {0, 1, 2}, b9 \in {0, 1, 2}, b10 \in {0, 1, 2} }

\* status reports with every combination of the bytes of the fields that
\* read each other's offsets (13, 14, 15)
CrossReports ==
    { [ScenarioStatus EXCEPT ![14] = b13, ![15] = b14, ![16] = b15] :
        b13 \in {0, 1, 2, 4}, b14 \in {0, 1, 2, 4}, b15 \in {0, 1, 2, 4} }

\* status reports that differ from the scenario in one byte
SingleReports ==
    { [ScenarioStatus EXCEPT ![i] = v] :
        i \in 3..16, v \in {0, 1, 3, 5, 6, 7, 8, 15, 25, 100, 255} }

DecodeCalls ==
    { Call(d, InterfaceEndpoint(7, 0)) :
        d \in LabelReports \cup CrossReports \cup SingleReports \cup OtherReports
              \cup {ScenarioStatus \o Zeros(n) : n \in 0..MaxExtra}
              \cup {<<7, 69, 50, 75>>, <<7, 69, 0, 100>>} }
    \cup { Call(d, e) : d \in {ScenarioStatus, <<7, 69, 75, 50>>, <<>>},
                        e \in OtherEndpoints }

\* one iteration of a read loop, the report drawn from S
ReadLoopOver(S) ==
    /\ session = "Ready"
    /\ \E c \in S :
         /\ manage_input_data(c.data, c.endpoint)
         /\ last_call' = c
         /\ last_mix' = IF IsMixUpdate(c) THEN c.data ELSE last_mix
    /\ last_status' = IF ~IsRaised(ret') /\ ret'.device_status # None
                      THEN ret'.device_status
                      ELSE last_status
    /\ op' = "manage_input_data"
    /\ UNCHANGED <<dev, session, pc, cmd_idx, init_error, io>>

\* the reports of a session up to and including its first decoded status
DecodeReadLoop ==
    /\ last_status = None
    /\ ReadLoopOver(DecodeCalls)
    /\ UNCHANGED aux

SpecDecode == InitReady /\ [][DecodeReadLoop]_vars

----------------------------------------------------------------------------
(* The decoder along the history of one driver instance *)

\* a second valid status report, differing from the scenario in every label
OtherStatus == <<6, 176, 1, 0, 0, 2, 13, 255, 25, 1, 1, 7, 2, 0, 1, 1>>

\* status reports handled again and again, between mix updates, a status
\* report whose decoding raises, and reports that are not recognised
HistoryCalls ==
    { Call(d, InterfaceEndpoint(7, 0)) :
        d \in { ScenarioStatus, ScenarioStatus \o Zeros(MaxExtra), OtherStatus,
                [ScenarioStatus EXCEPT ![13] = 7],
                <<7, 69, 50, 75>>, <<7, 69, 100, 0>>, <<7, 37, 200>> } }
    \cup { Call(ScenarioStatus, InterfaceEndpoint(7, 1)) }

\* a decoded status report: its 16 bytes, the DeviceStatus returned, and the
\* mix the driver held when it was handled
Decoding(c, status, gm, cm) ==
    [ data |-> SubSeq(c.data, 1, 16), status |-> status,
      game_mix |-> gm, chat_mix |-> cm ]

\* one iteration of a read loop that records every decoded status report
HistoryReadLoop ==
    /\ ReadLoopOver(HistoryCalls)
    /\ decoded' = IF ~IsRaised(ret') /\ ret'.device_status # None
                  THEN decoded \cup {Decoding(last_call', ret'.device_status,
                                               game_mix, chat_mix)}
                  ELSE decoded
    /\ UNCHANGED <<threads, catalog, general_config, config_calls>>

SpecHistory == InitReady /\ [][HistoryReadLoop]_vars

----------------------------------------------------------------------------
(* get_configurable_settings *)

\* a get_configurable_settings call is repeated with the same argument at
\* most this many times in a row
MaxSettingsCalls == 2

\* SliderSetting(name, min_label, max_label, min_value, max_value, step,
\* current_state, on_value_change)
SliderSetting(name, min_label, max_label, min_value, max_value, step, current_state, on_value_change) ==
    [ kind |-> "slider", name |-> name,
      min_label |-> min_label, max_label |-> max_label,
      min_value |-> min_value, max_value |-> max_value, step |-> step,
      current_state |-> current_state, on_value_change |-> on_value_change ]

\* ToggleSetting(name, untoggled_label, toggled_label, current_state,
\* on_value_change)
ToggleSetting(name, untoggled_label, toggled_label, current_state, on_value_change) ==
    [ kind |-> "toggle", name |-> name,
      untoggled_label |-> untoggled_label, toggled_label |-> toggled_label,
      current_state |-> current_state, on_value_change |-> on_value_change ]

\* one entry of the dict returned, in the dict's order
Section(name, settings) == [name |-> name, settings |-> settings]

\* a catalog whose anc_level slider starts at the raw noise-cancelling byte
\* of the status passed
get_configurable_settings_seeded(state) ==
    << Section("microphone",
         << SliderSetting("mic_volume", "mic_volume_muted", "mic_volume_max",
                          1, 16, 1, 16, "print"),
            SliderSetting("mic_side_tone", "mic_side_tone_none",
                          "mic_side_tone_high", 0, 3, 1, 0, "print"),
            ToggleSetting("mic_gain", "mic_gain_low", "mic_gain_high",
                          TRUE, "print") >>),
       Section("anc",
         << SliderSetting("anc_level", "anc_level_low", "anc_level_high",
                          0, 3, 1,
                          IF state = None THEN 0
                          ELSE state.transparent_noise_cancelling_level.raw_val,
                          "print") >>),
       Section("power_management",
         << SliderSetting("pm_shutdown", "pm_shutdown_disabled",
                          "pm_shutdown_60_minutes", 0, 6, 1, 4, "print") >>),
       Section("wireless",
         << ToggleSetting("wireless_mode", "wireless_mode_speed",
                          "wireless_mode_range", FALSE, "print") >>) >>

\* a catalog whose mic_volume slider starts one step lower once a catalog
\* has been handed out before
get_configurable_settings_remembering(state) ==
    << Section("microphone",
         << SliderSetting("mic_volume", "mic_volume_muted", "mic_volume_max",
                          1, 16, 1, IF catalog = None THEN 16 ELSE 15, "print"),
            SliderSetting("mic_side_tone", "mic_side_tone_none",
                          "mic_side_tone_high", 0, 3, 1, 0, "print"),
            ToggleSetting("mic_gain", "mic_gain_low", "mic_gain_high",
                          TRUE, "print") >>),
       Section("anc",
         << SliderSetting("anc_level", "anc_level_low", "anc_level_high",
                          0, 3, 1, 0, "print") >>),
       Section("power_management",
         << SliderSetting("pm_shutdown", "pm_shutdown_disabled",
                          "pm_shutdown_60_minutes", 0, 6, 1, 4, "print") >>),
       Section("wireless",
         << ToggleSetting("wireless_mode", "wireless_mode_speed",
                          "wireless_mode_range", FALSE, "print") >>) >>

\* lines 154-172: the dict returned, whatever the state passed
get_configurable_settings(state) ==
    << Section("microphone",
         << SliderSetting("mic_volume", "mic_volume_muted", "mic_volume_max",
                          1, 16, 1, 16, "print"),
            SliderSetting("mic_side_tone", "mic_side_tone_none",
                          "mic_side_tone_high", 0, 3, 1, 0, "print"),
            ToggleSetting("mic_gain", "mic_gain_low", "mic_gain_high",
                          TRUE, "print") >>),
       Section("anc",
         << SliderSetting("anc_level", "anc_level_low", "anc_level_high",
                          0, 3, 1, 0, "print") >>),
       Section("power_management",
         << SliderSetting("pm_shutdown", "pm_shutdown_disabled",
                          "pm_shutdown_60_minutes", 0, 6, 1, 4, "print") >>),
       Section("wireless",
         << ToggleSetting("wireless_mode", "wireless_mode_speed",
                          "wireless_mode_range", FALSE, "print") >>) >>

\* the reports handled before and between the requests for the catalog
SettingsCalls ==
    { Call(d, InterfaceEndpoint(7, 0)) :
        d \in { ScenarioStatus, OtherStatus, [ScenarioStatus EXCEPT ![13] = 0],
               <<7, 69, 50, 75>>, <<7, 37, 200>> } }

SettingsReadLoop ==
    /\ ReadLoopOver(SettingsCalls)
    /\ UNCHANGED aux

\* the same request was made by the step before, with nothing in between
Repeats(state) ==
    /\ op = "get_configurable_settings"
    /\ catalog.arg = state

\* settings_window.py line 41: the window asks for the catalog, passing the
\* status it was opened with (None, or the last DeviceStatus of the session)
GetSettings ==
    /\ session = "Ready"
    /\ \E state \in {None, last_status} :
         /\ Repeats(state) => catalog.n < MaxSettingsCalls
         /\ catalog' = [ arg |-> state,
                         sections |-> get_configurable_settings(state),
                         n |-> IF Repeats(state) THEN catalog.n + 1 ELSE 1 ]
    /\ op' = "get_configurable_settings"
    /\ UNCHANGED <<dev, session, pc, cmd_idx, init_error, io, game_mix, chat_mix,
                   last_call, ret, last_mix, last_status, threads, decoded,
                   general_config, config_calls>>

SpecSettings == InitReady /\ [][SettingsReadLoop \/ GetSettings]_vars

----------------------------------------------------------------------------
(* manage_input_data called from several threads on one driver instance *)

\* the reports the threads handle: two mix updates, a status report and a
\* report that is not recognised
ConcurrentCalls ==
    { Call(d, InterfaceEndpoint(7, 0)) :
        d \in { <<7, 69, 50, 75>>, <<7, 69, 75, 50>>, ScenarioStatus, <<7, 37, 200>> } }

\* what a thread step leaves alone: the calls' results are kept per thread
ThreadFrame ==
    <<dev, session, pc, cmd_idx, init_error, io, op, last_call, ret, last_mix,
      last_status, catalog, decoded, general_config, config_calls>>

\* lines 102-112: a thread enters manage_input_data with a report and takes
\* its branch; only the mix branch touches the fields of self
Enter(t) ==
    /\ session = "Ready"
    /\ threads[t].pc \in {"idle", "returned"}
    /\ \E c \in ConcurrentCalls :
         threads' = [threads EXCEPT ![t] =
                       [ pc |-> IF branch(c.data, c.endpoint) = "mix"
                                THEN "l114" ELSE "l145",
                         call |-> c, game_mix |-> None, ret |-> None ]]
    /\ UNCHANGED <<game_mix, chat_mix>>
    /\ UNCHANGED ThreadFrame

\* line 114: self.game_mix = data[2] / 100
Line114(t) ==
    /\ threads[t].pc = "l114"
    /\ game_mix' = Frac(At(threads[t].call.data, 2), 100)
    /\ threads' = [threads EXCEPT ![t].pc = "l115"]
    /\ UNCHANGED chat_mix
    /\ UNCHANGED ThreadFrame

\* line 115: self.chat_mix = data[3] / 100
Line115(t) ==
    /\ threads[t].pc = "l115"
    /\ chat_mix' = Frac(At(threads[t].call.data, 3), 100)
    /\ threads' = [threads EXCEPT ![t].pc = "l145"]
    /\ UNCHANGED game_mix
    /\ UNCHANGED ThreadFrame

\* line 145: the argument game_mix is evaluated from self.game_mix
Line145(t) ==
    /\ threads[t].pc = "l145"
    /\ threads' = [threads EXCEPT ![t].pc = "l146",
                                  ![t].game_mix = IF game_mix # None THEN game_mix
                                                  ELSE Frac(1, 1)]
    /\ UNCHANGED <<game_mix, chat_mix>>
    /\ UNCHANGED ThreadFrame

\* lines 146-148: the argument chat_mix is evaluated from self.chat_mix and
\* the ChatMixState is returned
Line146(t) ==
    /\ threads[t].pc = "l146"
    /\ threads' = [threads EXCEPT ![t].pc = "returned",
                     ![t].ret = [ game_volume |-> Frac(1, 1),
                                  chat_volume |-> Frac(1, 1),
                                  game_mix |-> threads[t].game_mix,
                                  chat_mix |-> IF chat_mix # None THEN chat_mix
                                               ELSE Frac(1, 1),
                                  device_status |->
                                    device_status_of(threads[t].call.data,
                                                     threads[t].call.endpoint) ]]
    /\ UNCHANGED <<game_mix, chat_mix>>
    /\ UNCHANGED ThreadFrame

ThreadStep ==
    \E t \in Threads :
        Enter(t) \/ Line114(t) \/ Line115(t) \/ Line145(t) \/ Line146(t)

SpecConcurrent == InitReady /\ [][ThreadStep]_vars

----------------------------------------------------------------------------
(* The general configuration written by the settings window *)

\* Python values of the configuration dict
PyBool(b) == [type |-> "bool", value |-> b]
PyStr(str) == [type |-> "str", value |-> str]

\* JSON values as written to the file
JsonTrue == [token |-> "true"]
JsonFalse == [token |-> "false"]
JsonString(str) == [token |-> "string", chars |-> str]

\* json.dump of one value of the dict
json_dump_value(v) ==
    IF v.type = "bool" THEN (IF v.value THEN JsonTrue ELSE JsonFalse)
    ELSE JsonString(v.value)

\* json.load of one value of the file
json_load_value(j) ==
    IF j.token = "true" THEN PyBool(TRUE)
    ELSE IF j.token = "false" THEN PyBool(FALSE)
    ELSE PyStr(j.chars)

\* json.dump(config, f)
json_dump(config) == [k \in DOMAIN config |-> json_dump_value(config[k])]

\* json.load(f)
json_load(content) == [k \in DOMAIN content |-> json_load_value(content[k])]

\* config_manager.py lines 38-42
get_general_config ==
    IF general_config.is_file THEN json_load(general_config.content) ELSE <<>>

\* config_manager.py lines 44-46
save_general_config(config) ==
    general_config' = [is_file |-> TRUE, content |-> json_dump(config)]

\* pactl_utils.py lines 5-8
PactlDevice(name, description) == [name |-> name, description |-> description]

\* the sinks offered as fallback device
PactlDevices ==
    { PactlDevice("alsa_output.pci-0000_00_1f.3.analog-stereo", "Built-in Audio"),
      PactlDevice("alsa_output.pci-0000_01_00.1.hdmi-stereo", "HDMI Audio") }

\* a key of general.json that the settings window does not write
ForeignKey == "language"

\* general.json as earlier runs may have left it: missing, empty, written by
\* an earlier settings window, or holding a key of its own
GeneralConfigFiles ==
    { NoFile,
      [is_file |-> TRUE, content |-> <<>>],
      [is_file |-> TRUE,
       content |-> json_dump(("device_switch" :> PyBool(TRUE))
                             @@ ("smart_device_switch" :> PyBool(FALSE))
                             @@ ("fallback_device" :> PyStr("HDMI Audio")))],
      [is_file |-> TRUE, content |-> json_dump(ForeignKey :> PyStr("en"))],
      [is_file |-> TRUE,
       content |-> json_dump((ForeignKey :> PyStr("en"))
                             @@ ("device_switch" :> PyBool(FALSE)))] }

\* what a general-settings handler leaves alone
ConfigFrame ==
    <<dev, session, pc, cmd_idx, init_error, io, game_mix, chat_mix, last_call,
      ret, last_mix, last_status, threads, catalog, decoded>>

\* the handler starting from an empty dict instead of the stored one
on_device_switch_changed_fresh(enabled) ==
    LET config == "device_switch" :> PyBool(enabled)
    IN  /\ save_general_config(config)
        /\ config_calls' = [config_calls EXCEPT !["device_switch"] = PyBool(enabled)]
        /\ op' = "on_device_switch_changed"
        /\ UNCHANGED ConfigFrame

\* settings_window.py lines 256-262
on_device_switch_changed(enabled) ==
    LET config == ("device_switch" :> PyBool(enabled)) @@ get_general_config
    IN  /\ save_general_config(config)
        /\ config_calls' = [config_calls EXCEPT !["device_switch"] = PyBool(enabled)]
        /\ op' = "on_device_switch_changed"
        /\ UNCHANGED ConfigFrame

\* settings_window.py lines 264-270
on_smart_device_switch_changed(enabled) ==
    LET config == ("smart_device_switch" :> PyBool(enabled)) @@ get_general_config
    IN  /\ save_general_config(config)
        /\ config_calls' = [config_calls EXCEPT
                              !["smart_device_switch"] = PyBool(enabled)]
        /\ op' = "on_smart_device_switch_changed"
        /\ UNCHANGED ConfigFrame

\* settings_window.py lines 272-278
on_fallback_device_changed(device) ==
    LET config == ("fallback_device" :> PyStr(device.description))
                  @@ get_general_config
    IN  /\ save_general_config(config)
        /\ config_calls' = [config_calls EXCEPT
                              !["fallback_device"] = PyStr(device.description)]
        /\ op' = "on_fallback_device_changed"
        /\ UNCHANGED ConfigFrame

\* the settings window is open on a configuration directory of earlier runs
InitConfig ==
    /\ ReadyDriver
    /\ general_config \in GeneralConfigFiles
    /\ config_calls = NoCalls

NextConfig ==
    \/ \E enabled \in BOOLEAN : on_device_switch_changed(enabled)
    \/ \E enabled \in BOOLEAN : on_smart_device_switch_changed(enabled)
    \/ \E device \in PactlDevices : on_fallback_device_changed(device)

SpecConfig == InitConfig /\ [][NextConfig]_vars

----------------------------------------------------------------------------
(* Properties of the session and of manage_input_data *)

\* the last step was a manage_input_data call that returned a ChatMixState
Returned == op = "manage_input_data" /\ ~IsRaised(ret)

\* the fraction f is the real number n/d
IsFrac(f, n, d) == f.num * d = n * f.den

\* C5: no report is handled before init_device has run to completion: the
\* session only moves NotInitialized -> Initializing -> Ready (or to Failed
\* when init_device raised), reports are handled only in Ready, after all
\* 38 writes, and no init write follows a handled report.
C5_InitBeforeReports ==
    /\ [](last_call # None => session = "Ready" /\ pc = "done" /\ Len(Writes) = 38)
    /\ [][session' # session =>
            <<session, session'>> \in { <<"NotInitialized", "Initializing">>,
                                        <<"Initializing", "Ready">>,
                                        <<"Initializing", "Failed">> }]_vars
    /\ [][last_call' # last_call => session = "Ready" /\ io' = io]_vars
    /\ [][last_call # None => io' = io]_vars

C5_Witness == session = "Ready" /\ last_call # None /\ Len(Writes) = 38

\* C6: last-seen-wins: the gameMix and chatMix of a returned ChatMixState are
\* byte[2]/100 and byte[3]/100 of the most recent mix-update report handled
\* so far, and both are 1 when none has been handled yet.
C6_LastSeenWins ==
    Returned =>
      IF last_mix = <<>>
      THEN IsFrac(ret.game_mix, 1, 1) /\ IsFrac(ret.chat_mix, 1, 1)
      ELSE /\ IsFrac(ret.game_mix, last_mix[3], 100)
           /\ IsFrac(ret.chat_mix, last_mix[4], 100)

C6_Witness ==
    /\ Returned
    /\ last_mix = <<7, 69, 1, 99>>
    /\ ~IsMixUpdate(last_call)
    /\ ret.device_status # None
    /\ IsFrac(ret.game_mix, 1, 100)

\* C7: a mix update [0x07, 0x45, g, c, ...] with g and c in 0..100 on
\* interface 7 / endpoint 0 returns gameMix = g/100, chatMix = c/100,
\* gameVolume = chatVolume = 1 and deviceStatus = None.
C7_MixUpdateResult ==
    (/\ op = "manage_input_data"
     /\ IsMixUpdate(last_call)
     /\ last_call.data[3] \in 0..100
     /\ last_call.data[4] \in 0..100) =>
      /\ ~IsRaised(ret)
      /\ IsFrac(ret.game_mix, last_call.data[3], 100)
      /\ IsFrac(ret.chat_mix, last_call.data[4], 100)
      /\ IsFrac(ret.game_volume, 1, 1)
      /\ IsFrac(ret.chat_volume, 1, 1)
      /\ ret.device_status = None

C7_Witness ==
    /\ op = "manage_input_data"
    /\ last_call = Call(<<7, 69, 50, 75>>, InterfaceEndpoint(7, 0))
    /\ ret.game_mix = [num |-> 1, den |-> 2]
    /\ ret.chat_mix = [num |-> 3, den |-> 4]

\* C8 as claimed: a mix update whose byte[2] or byte[3] is above 100 is
\* rejected: the call raises, and no mix fraction above 1 is ever stored in
\* the driver or returned.
C8_MixAbove100Rejected ==
    /\ game_mix # None => FracLeq(game_mix, Frac(1, 1))
    /\ chat_mix # None => FracLeq(chat_mix, Frac(1, 1))
    /\ Returned => FracLeq(ret.game_mix, Frac(1, 1)) /\ FracLeq(ret.chat_mix, Frac(1, 1))
    /\ (/\ op = "manage_input_data"
        /\ IsMixUpdate(last_call)
        /\ (last_call.data[3] > 100 \/ last_call.data[4] > 100)) => IsRaised(ret)

\* C9: a full status report whose byte at offset 12 is outside 0..6 makes the
\* call raise: no DeviceStatus is produced, and the latest DeviceStatus and
\* the driver's game_mix and chat_mix stay as they were.
C9_BadAutoOffCodeRaises ==
    [][(/\ op' = "manage_input_data"
        /\ IsFullStatus(last_call')
        /\ last_call'.data[13] \notin 0..6) =>
          /\ IsRaised(ret')
          /\ last_status' = last_status
          /\ game_mix' = game_mix
          /\ chat_mix' = chat_mix]_vars

C9_Witness ==
    /\ op = "manage_input_data"
    /\ IsFullStatus(last_call)
    /\ last_call.data[13] = 7
    /\ IsRaised(ret)
    /\ last_status # None
    /\ game_mix # None

\* a report the protocol's table does not recognise
Unrecognized(c) ==
    \/ c.endpoint # InterfaceEndpoint(7, 0)
    \/ Len(c.data) < 2
    \/ <<c.data[1], c.data[2]>> \notin {<<7, 37>>, <<7, 69>>, <<6, 176>>}
    \/ <<c.data[1], c.data[2]>> = <<7, 69>> /\ Len(c.data) < 4
    \/ <<c.data[1], c.data[2]>> = <<6, 176>> /\ Len(c.data) < 16

\* C10: handling an unrecognised report raises nothing, leaves game_mix and
\* chat_mix as they were and returns deviceStatus = None.
C10_UnrecognizedHasNoEffect ==
    [][(op' = "manage_input_data" /\ Unrecognized(last_call')) =>
          /\ ~IsRaised(ret')
          /\ ret'.device_status = None
          /\ game_mix' = game_mix
          /\ chat_mix' = chat_mix]_vars

C10_Witness ==
    /\ op = "manage_input_data"
    /\ Unrecognized(last_call)
    /\ last_call.endpoint = InterfaceEndpoint(7, 0)
    /\ Len(last_call.data) >= 2
    /\ game_mix # None
    /\ ~IsRaised(ret)

----------------------------------------------------------------------------
(* Properties of the status decoder *)

\* the last step was a manage_input_data call that returned a DeviceStatus
StatusReturned ==
    /\ op = "manage_input_data"
    /\ ~IsRaised(ret)
    /\ ret.device_status # None

\* the byte at offset i of the report handled last
Off(i) == last_call.data[i + 1]

\* the label of a decoded field
Text(field) == ret.device_status[field].status_text

\* C11 as claimed: whenever the byte at offset 13 of a full status report is
\* 0x04, wireless_pairing is paired-offline whatever the byte at offset 14.
C11_PairedOfflineWhateverOffset14 ==
    (StatusReturned /\ IsFullStatus(last_call) /\ Off(13) = 4) =>
      Text("wireless_pairing") = "pairing.paired_offline"

\* C11 as amended: whenever the byte at offset 13 of a full status report is
\* 0x04, wireless_pairing is paired-offline unless the byte at offset 14 is
\* 0x01, and then it is not-paired.
C11_PairedOfflineUnlessNotPaired ==
    (StatusReturned /\ IsFullStatus(last_call) /\ Off(13) = 4) =>
      Text("wireless_pairing") = IF Off(14) = 1 THEN "pairing.not_paired"
                                 ELSE "pairing.paired_offline"

C11_Witness ==
    /\ StatusReturned
    /\ Off(13) = 4
    /\ Off(14) = 4
    /\ Text("wireless_pairing") = "pairing.paired_offline"

\* the report of the second scenario was handled last
ScenarioHandled ==
    /\ op = "manage_input_data"
    /\ last_call.endpoint = InterfaceEndpoint(7, 0)
    /\ Len(last_call.data) >= 16
    /\ SubSeq(last_call.data, 1, 16) = ScenarioStatus

\* the decoded scenario, but for the two labels given
ScenarioDecodesTo(bluetooth_power, pairing) ==
    /\ StatusReturned
    /\ Text("bluetooth_powerup_state") = "on_off.off"
    /\ Text("bluetooth_auto_mute") = "db.-12db"
    /\ Text("bluetooth_power_status") = bluetooth_power
    /\ Text("bluetooth_connection") = "connection.connected"
    /\ IsFrac(ret.device_status.headset_battery_charge.mapped_val, 8, 1)
    /\ IsFrac(ret.device_status.charge_slot_battery_charge.mapped_val, 8, 1)
    /\ IsFrac(ret.device_status.transparent_noise_cancelling_level.mapped_val, 3, 1)
    /\ Text("mic_status") = "mic_status.unmuted"
    /\ Text("noise_cancelling") = "on"
    /\ IsFrac(ret.device_status.mic_led_brightness.mapped_val, 5, 1)
    /\ IsFrac(ret.device_status.auto_off_time_minutes.mapped_val, 30, 1)
    /\ Text("wireless_mode") = "wireless_mode.range"
    /\ Text("wireless_pairing") = pairing

\* C12 as claimed: the scenario's report decodes to the listed values, with
\* bluetooth_power = on and wireless_pairing = paired-offline.
C12_ScenarioAsClaimed ==
    ScenarioHandled => ScenarioDecodesTo("on_off.on", "pairing.paired_offline")

\* C12 as amended: the scenario's report decodes to the listed values, but
\* bluetooth_power is off (offset 4 is 0x01) and wireless_pairing is
\* connected (offset 14 is not 0x01 and offset 13 is not 0x04).
C12_ScenarioAsDecoded ==
    ScenarioHandled => ScenarioDecodesTo("on_off.off", "connection.connected")

C12_Witness ==
    /\ ScenarioHandled
    /\ last_call.data = ScenarioStatus
    /\ StatusReturned
    /\ Text("wireless_pairing") = "connection.connected"

\* the offset each field of a DeviceStatus is read from
FieldOffset ==
    [ bluetooth_powerup_state |-> 2, bluetooth_auto_mute |-> 3,
      bluetooth_power_status |-> 4, bluetooth_connection |-> 5,
      headset_battery_charge |-> 6, charge_slot_battery_charge |-> 7,
      transparent_noise_cancelling_level |-> 8, mic_status |-> 9,
      noise_cancelling |-> 10, mic_led_brightness |-> 11,
      auto_off_time_minutes |-> 12, wireless_mode |-> 13,
      wireless_pairing |-> 14, headset_power_status |-> 15 ]

\* C13: decoding is history-independent: whenever one driver instance has
\* handled the same 16 bytes of a valid status report at two points of its
\* history, with whatever game_mix/chat_mix and whatever reports in between,
\* the two DeviceStatus returned are the same field for field.
C13_DecodingHistoryIndependent ==
    \A a \in decoded : \A b \in decoded :
        a.data = b.data =>
          \A f \in DOMAIN FieldOffset : a.status[f] = b.status[f]

\* the scenario's report was decoded before any mix update and again after
\* one, and another status report was decoded as well
C13_Witness ==
    /\ StatusReturned
    /\ SubSeq(last_call.data, 1, 16) = ScenarioStatus
    /\ \E a \in decoded : \E b \in decoded :
         /\ a.data = ScenarioStatus /\ b.data = ScenarioStatus
         /\ a.game_mix = None /\ b.game_mix # None
    /\ \E o \in decoded : o.data = OtherStatus
    /\ last_status = DeviceStatus(ScenarioStatus)

\* a DeviceStatus was returned for the report handled last
HasStatus == ~IsRaised(ret) /\ ret.device_status # None

\* C18 as claimed: a non-None deviceStatus is returned if and only if the
\* report came on interface 7 / endpoint 0, begins with 0x06, 0xb0 and has
\* at least 16 bytes.
C18_StatusIffFullStatusReport ==
    op = "manage_input_data" => (HasStatus <=> IsFullStatus(last_call))

\* C18 as amended: a non-None deviceStatus is returned if and only if the
\* report came on interface 7 / endpoint 0, begins with 0x06, 0xb0, has at
\* least 16 bytes and its byte at offset 12 is in 0..6 (otherwise the call
\* raises); the DeviceStatus then has its 14 fields set from that report, and
\* handling a status report leaves game_mix and chat_mix unchanged.
C18_StatusIffDecodableStatusReport ==
    /\ [](op = "manage_input_data" =>
            (HasStatus <=> (IsFullStatus(last_call) /\ Off(12) \in 0..6)))
    /\ [](StatusReturned =>
            /\ DOMAIN ret.device_status = DOMAIN FieldOffset
            /\ Cardinality(DOMAIN ret.device_status) = 14
            /\ \A f \in DOMAIN FieldOffset :
                 ret.device_status[f].raw_val = Off(FieldOffset[f]))
    /\ [][(op' = "manage_input_data" /\ IsFullStatus(last_call')) =>
            game_mix' = game_mix /\ chat_mix' = chat_mix]_vars

C18_Witness ==
    /\ StatusReturned
    /\ IsFullStatus(last_call)
    /\ game_mix # None
    /\ ret.device_status.headset_battery_charge.raw_val = 64

\* C19: in every decoded status report the independent label fields follow
\* the decode table (offsets 2, 3, 4, 5, 9, 10, 13), and each carries the raw
\* byte of its offset.
C19_LabelFieldsFollowTable ==
    (StatusReturned /\ IsFullStatus(last_call)) =>
      /\ Text("bluetooth_powerup_state") =
           IF Off(2) = 0 THEN "on_off.off" ELSE "on_off.on"
      /\ Text("bluetooth_auto_mute") =
           IF Off(3) = 0 THEN "on_off.off"
           ELSE IF Off(3) = 1 THEN "db.-12db" ELSE "on_off.on"
      /\ Text("bluetooth_power_status") =
           IF Off(4) = 1 THEN "on_off.off" ELSE "on_off.on"
      /\ Text("bluetooth_connection") =
           IF Off(5) = 0 THEN "on_off.off"
           ELSE IF Off(5) = 1 THEN "connection.connected"
           ELSE "connection.disconnected"
      /\ Text("mic_status") =
           IF Off(9) = 0 THEN "mic_status.unmuted" ELSE "mic_status.muted"
      /\ Text("noise_cancelling") =
           IF Off(10) = 0 THEN "off"
           ELSE IF Off(10) = 1 THEN "transparent" ELSE "on"
      /\ Text("wireless_mode") =
           IF Off(13) = 0 THEN "wireless_mode.speed" ELSE "wireless_mode.range"
      /\ \A f \in { "bluetooth_powerup_state", "bluetooth_auto_mute",
                    "bluetooth_power_status", "bluetooth_connection",
                    "mic_status", "noise_cancelling", "wireless_mode" } :
           ret.device_status[f].raw_val = Off(FieldOffset[f])

C19_Witness ==
    /\ StatusReturned
    /\ Off(2) = 2 /\ Off(3) = 1 /\ Off(4) = 0 /\ Off(5) = 2
    /\ Off(9) = 1 /\ Off(10) = 1
    /\ Text("bluetooth_power_status") = "on_off.on"
    /\ Text("bluetooth_connection") = "connection.disconnected"

\* C20: headset_power_status is offline when the byte at offset 15 is 0x01,
\* otherwise cable-charging when the byte at offset 14 is 0x02, otherwise
\* online; its raw byte is the byte at offset 15.
C20_HeadsetPowerStatus ==
    (StatusReturned /\ IsFullStatus(last_call)) =>
      /\ Text("headset_power_status") =
           IF Off(15) = 1 THEN "connection.offline"
           ELSE IF Off(14) = 2 THEN "connection.cable_charging"
           ELSE "connection.online"
      /\ ret.device_status.headset_power_status.raw_val = Off(15)

C20_Witness ==
    /\ StatusReturned
    /\ Off(15) = 4
    /\ Off(14) = 2
    /\ Text("headset_power_status") = "connection.cable_charging"

----------------------------------------------------------------------------
(* Properties of concurrent manage_input_data calls *)

\* the (gameMix, chatMix) pairs that come from one single mix update, and
\* the default pair
WholePairs ==
    { <<Frac(At(c.data, 2), 100), Frac(At(c.data, 3), 100)>> :
        c \in {d \in ConcurrentCalls : IsMixUpdate(d)} }
    \cup { <<Frac(1, 1), Frac(1, 1)>> }

----------------------------------------------------------------------------
(* Properties of get_configurable_settings *)

\* the last step was a get_configurable_settings call
CatalogReturned == op = "get_configurable_settings"

\* the settings of the catalog returned last, section after section
RECURSIVE Flatten(_)
Flatten(sections) ==
    IF sections = <<>> THEN <<>>
    ELSE Head(sections).settings \o Flatten(Tail(sections))

\* the current value of the named setting in the catalog returned last
Current(name) ==
    LET all == Flatten(catalog.sections)
    IN  all[CHOOSE i \in DOMAIN all : all[i].name = name].current_state

\* C15: get_configurable_settings is read-idempotent: a call that follows a
\* call with the same status, with no manage_input_data call in between,
\* returns the same sections with the same settings in the same order and
\* the same current values; and no call changes game_mix or chat_mix or
\* issues anything to the device.
C15_SettingsReadIdempotent ==
    [][op' = "get_configurable_settings" =>
         /\ game_mix' = game_mix
         /\ chat_mix' = chat_mix
         /\ io' = io
         /\ (CatalogReturned /\ catalog'.arg = catalog.arg) =>
               catalog'.sections = catalog.sections]_vars

\* the catalog was requested twice in a row with the scenario's status, after
\* a mix update
C15_Witness ==
    /\ CatalogReturned
    /\ catalog.n = 2
    /\ catalog.arg = DeviceStatus(ScenarioStatus)
    /\ game_mix # None
    /\ Len(catalog.sections) = 4
    /\ Current("pm_shutdown") = 4

\* C16 as claimed: the catalog is generated from the status passed: the
\* current value of pm_shutdown is the status's auto-off code, wireless_mode
\* is toggled exactly when the status's mode is range, and anc_level is the
\* status's noise-cancelling level.
C16_CatalogFollowsStatus ==
    (CatalogReturned /\ catalog.arg # None) =>
      /\ Current("pm_shutdown") = catalog.arg.auto_off_time_minutes.raw_val
      /\ Current("wireless_mode") =
           (catalog.arg.wireless_mode.status_text = "wireless_mode.range")
      /\ IsFrac(catalog.arg.transparent_noise_cancelling_level.mapped_val,
                Current("anc_level"), 1)

\* a slider whose current value lies between its ends, a whole number of
\* steps above min_value
SliderInRange(x) ==
    /\ x.step > 0
    /\ x.min_value <= x.current_state
    /\ x.current_state <= x.max_value
    /\ (x.current_state - x.min_value) % x.step = 0

\* C21: in every catalog returned by get_configurable_settings, for a status
\* or for None, every slider has min_value <= current value <= max_value with
\* the current value a whole number of steps above min_value, and every
\* toggle's current value is a boolean.
C21_CatalogValuesInRange ==
    CatalogReturned =>
      LET all == Flatten(catalog.sections)
      IN  \A i \in DOMAIN all :
            /\ all[i].kind \in {"slider", "toggle"}
            /\ all[i].kind = "slider" => SliderInRange(all[i])
            /\ all[i].kind = "toggle" => all[i].current_state \in BOOLEAN

\* the catalog was returned for the scenario's status, whose raw bytes lie
\* outside the sliders' ranges, with its four sliders and two toggles
C21_Witness ==
    /\ CatalogReturned
    /\ catalog.arg = DeviceStatus(ScenarioStatus)
    /\ catalog.arg.transparent_noise_cancelling_level.raw_val > 3
    /\ LET all == Flatten(catalog.sections)
       IN  /\ Cardinality({i \in DOMAIN all : all[i].kind = "slider"}) = 4
           /\ Cardinality({i \in DOMAIN all : all[i].kind = "toggle"}) = 2
    /\ Current("mic_volume") = 16
    /\ Current("anc_level") = 0

----------------------------------------------------------------------------
(* Properties of the general configuration *)

\* the key each handler writes
HandlerKey ==
    [ on_device_switch_changed |-> "device_switch",
      on_smart_device_switch_changed |-> "smart_device_switch",
      on_fallback_device_changed |-> "fallback_device" ]

\* the stored configuration holds the value of the latest call for the key
HoldsLatest(k) ==
    /\ general_config.is_file
    /\ k \in DOMAIN get_general_config
    /\ get_general_config[k] = config_calls[k]

\* the keys of the stored configuration other than k are as they were
OthersKept(k) ==
    /\ \A j \in DOMAIN get_general_config \ {k} :
         /\ j \in DOMAIN get_general_config'
         /\ get_general_config'[j] = get_general_config[j]
    /\ DOMAIN get_general_config' = DOMAIN get_general_config \cup {k}

\* C22: after any sequence of on_device_switch_changed,
\* on_smart_device_switch_changed and on_fallback_device_changed calls, the
\* stored general configuration holds for each of the three keys the value of
\* the most recent call for that key, and each call leaves every other key of
\* the stored configuration unchanged.
C22_GeneralConfigKeepsLatest ==
    /\ [](\A k \in SettingKeys : config_calls[k] # None => HoldsLatest(k))
    /\ [][op' \in DOMAIN HandlerKey => OthersKept(HandlerKey[op'])]_vars

\* each of the three handlers has been called, the fallback device last, on a
\* file that held a key of its own and another device_switch value
C22_Witness ==
    /\ op = "on_fallback_device_changed"
    /\ \A k \in SettingKeys : config_calls[k] # None /\ HoldsLatest(k)
    /\ get_general_config["device_switch"] = PyBool(TRUE)
    /\ get_general_config["fallback_device"] = PyStr("Built-in Audio")
    /\ ForeignKey \in DOMAIN get_general_config
    /\ get_general_config[ForeignKey] = PyStr("en")

----------------------------------------------------------------------------

Init ==
    /\ dev \in Devices
    /\ session = "NotInitialized"
    /\ pc = "idle"
    /\ cmd_idx = 0
    /\ init_error = "none"
    /\ io = <<>>
    /\ game_mix = None
    /\ chat_mix = None
    /\ op = "construct"
    /\ last_call = None
    /\ ret = None
    /\ last_mix = <<>>
    /\ last_status = None
    /\ threads = NoThreads
    /\ catalog = None
    /\ decoded = {}
    /\ general_config = NoFile
    /\ config_calls = NoCalls

Next ==
    \/ SessionStart
    \/ init_device_begin
    \/ init_device_write
    \/ init_device_return
    \/ SessionInitialized
    \/ ReadLoop

Spec == Init /\ [][Next]_vars

====
